---- MODULE Spec2Model ----
(***************************************************************************)
(* ts-form-validator: the rule algebra (rule.ts), the rule builder         *)
(* catalog (rule-builders), the field / validator state (state.ts, newest  *)
(* revision) and the validator widget that drives the asynchronous jobs    *)
(* (widget.tsx).                                                           *)
(***************************************************************************)
EXTENDS Integers, Sequences, FiniteSets, TLC

(***************************************************************************)
(* Bounds of the model.                                                    *)
(***************************************************************************)
\* number of validate / clear calls the caller makes on the aggregate
MaxCalls == 2
\* length of the strings the rule algebra is exercised on
MaxLen == 3
\* number of rules handed to all / any
MaxRules == 3
\* the numbers the comparison rules are exercised on are -MaxNum..MaxNum
MaxNum == 3
\* number of patches of the driver that wait to be applied
MaxQueue == 2

(***************************************************************************)
(* Constants of the example form.                                          *)
(***************************************************************************)
\* b.min(2)
MinNameLength == 2
\* validate({...s.data, lastname}, 'lastname', 350)
DebounceDelay == 350

(***************************************************************************)
(* Values of form fields.  A string is the sequence of its characters.     *)
(***************************************************************************)
Str(s) == [ty |-> "string", s |-> s]

\* the value of a parameter that was not passed
undefined == [ty |-> "undefined"]

\* a number
Num(v) == [ty |-> "number", v |-> v]

Chars == {"a", "1", "!"}

\* the class [a-zA-Z0-9] of the regular expressions of the catalog
IsAlphaNumericChar(c) == c \in {"a", "1"}

\* the values the rule algebra is exercised on: every string of at most MaxLen characters
AlgebraValues == {Str(s) : s \in UNION {[1..n -> Chars] : n \in 0..MaxLen}}

(***************************************************************************)
(* Result (rule.ts).                                                       *)
(***************************************************************************)
passed == [kind |-> "passed"]

\* {kind: 'failed', name, data: {...data, name}}
failed(name, data) == [kind |-> "failed", name |-> name, data |-> [name |-> name] @@ data]

\* failed(name) with the default data = {}
failedNoData(name) == [kind |-> "failed", name |-> name, data |-> [name |-> name]]

\* a Promise that rejected instead of resolving to a Result
Rejected == [kind |-> "rejected"]

\* a run that threw (a TypeError) instead of returning a Result
Threw == [kind |-> "threw"]

(***************************************************************************)
(* Rules.  A rule is the tree of the builder calls that made it.           *)
(***************************************************************************)
Prim(t, n) == [t |-> t, n |-> n, kids |-> <<>>]

hasMinLength(n) == Prim("hasMinLength", n)
hasMaxLength(n) == Prim("hasMaxLength", n)
isAlphaNumeric == Prim("isAlphaNumeric", 0)
isRequired == Prim("isRequired", 0)
isEmpty == Prim("isEmpty", 0)

\* the comparisons of the NumberRuleBuilder
bigger(n) == Prim("bigger", n)
biggerOr(n) == Prim("biggerOr", n)
lesser(n) == Prim("lesser", n)
lesserOr(n) == Prim("lesserOr", n)

\* equalTo(k): the value equals the entry k of the record
equalTo(k) == [t |-> "equalTo", n |-> 0, kids |-> <<>>, key |-> k]

\* r1.and(r2), r1.or(r2) of rule(...)
And(r1, r2) == [t |-> "and", n |-> 0, kids |-> <<r1, r2>>]
Or(r1, r2) == [t |-> "or", n |-> 0, kids |-> <<r1, r2>>]

\* the catalog's primitives on a value that is absent (undefined): a.length throws,
\* the regular expression tests the text "undefined", (a || '') is the empty string
RunAbsent(r, root) ==
    CASE r.t \in {"hasMinLength", "hasMaxLength"} -> Threw
      [] r.t = "isAlphaNumeric" -> passed
      [] r.t = "isRequired" -> failedNoData("required")
      [] r.t = "isEmpty" -> passed
      [] r.t = "equalTo" ->
            IF root = undefined THEN Threw
            ELSE failed("equalTo", [kind |-> "equalTo", given |-> undefined, key |-> r.key,
                                    other |-> root[r.key]])

\* the catalog's primitives on a string value a
RunPrimString(r, a, root) ==
    CASE r.t = "hasMinLength" ->
            IF r.n <= Len(a.s) THEN passed
            ELSE failed("min", [expected |-> r.n, given |-> a, length |-> Len(a.s)])
      [] r.t = "hasMaxLength" ->
            IF r.n >= Len(a.s) THEN passed
            ELSE failed("max", [expected |-> r.n, given |-> a, length |-> Len(a.s)])
      [] r.t = "isAlphaNumeric" ->
            IF Len(a.s) > 0 /\ \A i \in 1..Len(a.s) : IsAlphaNumericChar(a.s[i]) THEN passed
            ELSE failed("alphaNumeric", [given |-> a])
      [] r.t = "isRequired" ->
            IF Len(a.s) > 0 THEN passed ELSE failedNoData("required")
      [] r.t = "isEmpty" ->
            IF Len(a.s) = 0 THEN passed ELSE failedNoData("empty")
      [] r.t = "equalTo" ->
            IF root = undefined THEN Threw
            ELSE IF a = root[r.key] THEN passed
            ELSE failed("equalTo", [kind |-> "equalTo", given |-> a, key |-> r.key,
                                    other |-> root[r.key]])

\* the comparisons on a number a: each of the four tests v > n
RunPrimNumber(r, a, root) ==
    IF a.v > r.n THEN passed ELSE failed(r.t, [kind |-> r.t, given |-> a])

RunPrim(r, a, root) ==
    IF a = undefined THEN RunAbsent(r, root)
    ELSE IF a.ty = "number" THEN RunPrimNumber(r, a, root)
    ELSE RunPrimString(r, a, root)

\* rule.run(a, root): the Result and, in order, the primitives that were invoked
RECURSIVE Run(_, _, _)
\* and that runs its right operand first
AndRunRightFirst(r, a, root) ==
    LET r2 == Run(r.kids[2], a, root)
        r1 == Run(r.kids[1], a, root)
    IN  IF r1.result.kind = "failed"
        THEN [result |-> r1.result, calls |-> r2.calls \o r1.calls]
        ELSE [result |-> r2.result, calls |-> r2.calls \o r1.calls]


\* and without the short circuit: the second rule is run whatever the first returns
AndRunEager(r, a, root) ==
    LET r1 == Run(r.kids[1], a, root)
        r2 == Run(r.kids[2], a, root)
    IN  IF r1.result.kind = "failed"
        THEN [result |-> r1.result, calls |-> r1.calls \o r2.calls]
        ELSE [result |-> r2.result, calls |-> r1.calls \o r2.calls]

AndRun(r, a, root) ==
    LET r1 == Run(r.kids[1], a, root)
    IN  IF r1.result.kind \in {"failed", "threw"} THEN r1
        ELSE LET r2 == Run(r.kids[2], a, root)
             IN  [result |-> r2.result, calls |-> r1.calls \o r2.calls]

\* or that tests the first result the way and does
OrRunLikeAnd(r, a, root) ==
    LET r1 == Run(r.kids[1], a, root)
    IN  IF r1.result.kind = "failed" THEN r1
        ELSE LET r2 == Run(r.kids[2], a, root)
             IN  [result |-> r2.result, calls |-> r1.calls \o r2.calls]

OrRun(r, a, root) ==
    LET r1 == Run(r.kids[1], a, root)
    IN  IF r1.result.kind \in {"passed", "threw"} THEN r1
        ELSE LET r2 == Run(r.kids[2], a, root)
             IN  [result |-> r2.result, calls |-> r1.calls \o r2.calls]

Run(r, a, root) ==
    CASE r.t = "and" -> AndRun(r, a, root)
      [] r.t = "or" -> OrRun(r, a, root)
      [] OTHER -> [result |-> RunPrim(r, a, root), calls |-> <<r>>]

(***************************************************************************)
(* Asynchronous rules (rule.ts, asyncRule).  An asynchronous run ends in a *)
(* Result or in a rejection.                                               *)
(***************************************************************************)
AsyncPrim(t) == [t |-> t, n |-> 0, kids |-> <<>>]

\* const delay = asyncRule(() => new Promise(r => setTimeout(() => r(passed), ...)))
delay == AsyncPrim("delay")

\* asyncRule(v => ...): a predicate supplied by the user whose Promise rejects for the
\* values it cannot check
remoteCheck == AsyncPrim("remoteCheck")

\* r.async() of a synchronous rule r
ToAsync(r) == [t |-> "async", n |-> 0, kids |-> <<r>>]

\* r1.and(r2), r1.or(r2) of asyncRule(...)
AsyncAnd(r1, r2) == [t |-> "asyncAnd", n |-> 0, kids |-> <<r1, r2>>]
AsyncOr(r1, r2) == [t |-> "asyncOr", n |-> 0, kids |-> <<r1, r2>>]

\* rule.kind
RuleKind(r) ==
    IF r.t \in {"delay", "remoteCheck", "async", "asyncAnd", "asyncOr"} THEN "async-rule" ELSE "sync-rule"

\* the events of a Promise that a primitive asynchronous rule returns
Started(r) == [ev |-> "start", rule |-> r]
Settled(r) == [ev |-> "settle", rule |-> r]

\* what the Promise of an asynchronous run settles to, the primitives invoked and, in
\* order, the Promises that were started and settled on the way
RECURSIVE AsyncRun(_, _, _)
\* inside an async function a throw is a rejection of the Promise it returns
InAsync(x) == IF x.result.kind = "threw" THEN [x EXCEPT !.result = Rejected] ELSE x

\* and that calls r.run before it awaits the Promise of this.run
AsyncAndRunEager(r, a, root) ==
    LET r1 == InAsync(AsyncRun(r.kids[1], a, root))
        r2 == InAsync(AsyncRun(r.kids[2], a, root))
        early == <<Head(r2.events)>> \o r1.events
    IN  IF r1.result.kind \in {"rejected", "failed"}
        THEN [result |-> r1.result, calls |-> r2.calls \o r1.calls, events |-> early]
        ELSE [result |-> r2.result, calls |-> r2.calls \o r1.calls,
              events |-> early \o Tail(r2.events)]

AsyncAndRun(r, a, root) ==
    LET r1 == InAsync(AsyncRun(r.kids[1], a, root))
    IN  IF r1.result.kind \in {"rejected", "failed"} THEN r1
        ELSE LET r2 == InAsync(AsyncRun(r.kids[2], a, root))
             IN  [result |-> r2.result, calls |-> r1.calls \o r2.calls,
                  events |-> r1.events \o r2.events]

AsyncOrRun(r, a, root) ==
    LET r1 == InAsync(AsyncRun(r.kids[1], a, root))
    IN  IF r1.result.kind \in {"rejected", "passed"} THEN r1
        ELSE LET r2 == InAsync(AsyncRun(r.kids[2], a, root))
             IN  [result |-> r2.result, calls |-> r1.calls \o r2.calls,
                  events |-> r1.events \o r2.events]

\* asyncRule(a => Promise.resolve(this.run(a))): the record is not passed on
ToAsyncRun(r, a, root) ==
    LET x == Run(r.kids[1], a, undefined)
    IN  [result |-> x.result, calls |-> x.calls, events |-> <<Started(r), Settled(r)>>]

AsyncRun(r, a, root) ==
    CASE r.t = "asyncAnd" -> AsyncAndRun(r, a, root)
      [] r.t = "asyncOr" -> AsyncOrRun(r, a, root)
      [] r.t = "async" -> ToAsyncRun(r, a, root)
      [] r.t = "delay" ->
            [result |-> passed, calls |-> <<r>>, events |-> <<Started(r), Settled(r)>>]
      [] r.t = "remoteCheck" ->
            [result |-> IF a = undefined \/ Len(a.s) < MinNameLength THEN Rejected ELSE passed,
             calls |-> <<r>>, events |-> <<Started(r), Settled(r)>>]

\* rule.run(a, root) of a rule of either kind
RuleRun(r, a, root) ==
    IF RuleKind(r) = "sync-rule" THEN Run(r, a, root) ELSE AsyncRun(r, a, root)

\* r1.and(r2), r1.or(r2): the method of r1, a rule or an asyncRule
DotAnd(r1, r2) == IF RuleKind(r1) = "sync-rule" THEN And(r1, r2) ELSE AsyncAnd(r1, r2)
DotOr(r1, r2) == IF RuleKind(r1) = "sync-rule" THEN Or(r1, r2) ELSE AsyncOr(r1, r2)

\* r.reduce((v, c) => f(v, c)) without an initial value, r not empty
RECURSIVE ReduceAnd(_)
ReduceAnd(rs) ==
    IF Len(rs) = 1 THEN rs[1]
    ELSE DotAnd(ReduceAnd(SubSeq(rs, 1, Len(rs) - 1)), rs[Len(rs)])

RECURSIVE ReduceOr(_)
ReduceOr(rs) ==
    IF Len(rs) = 1 THEN rs[1]
    ELSE DotOr(ReduceOr(SubSeq(rs, 1, Len(rs) - 1)), rs[Len(rs)])

\* all that combines the rules with or
AllWithOr(rs) == ReduceOr(rs)

\* all: (...r) => r.reduce((v, c) => v.and(c))
all(rs) == ReduceAnd(rs)

\* any: (...r) => r.reduce((v, c) => v.or(c))
any(rs) == ReduceOr(rs)

(***************************************************************************)
(* The schema of the example form.                                         *)
(***************************************************************************)
Fields == {"firstname", "lastname"}

Schema(f) ==
    IF f = "firstname"
    THEN AsyncAnd(delay, ToAsync(And(isAlphaNumeric, hasMinLength(MinNameLength))))
    ELSE And(isAlphaNumeric, hasMinLength(MinNameLength))

\* the form data passed to validate
Records ==
    {[firstname |-> Str(<<"a">>), lastname |-> Str(<<"a", "1">>)],
     [firstname |-> Str(<<"a", "1">>), lastname |-> Str(<<"a", "!">>)]}

\* the argument that stands for "no field given"
NoArg == "undefined"

Delays == {0, DebounceDelay}

(***************************************************************************)
(* Jobs.  jobs.next holds a closure, jobs.current a started Promise.       *)
(***************************************************************************)
\* async () => passed
ClearJob == [job |-> "clear"]

\* the closures validate queues; they capture self (the rule), field, data and delay
ValidateJob(rule, value, data, d) ==
    [job |-> "validate", rule |-> rule, value |-> value, data |-> data, delay |-> d]

\* how often the closure runs the rule before its Promise settles
JobRuns(j) ==
    CASE j.job = "clear" -> 0
      [] j.delay = 0 -> 1
      [] OTHER -> 2

\* what the Promise that the closure returns settles to
JobOutcome(j) ==
    CASE j.job = "clear" -> passed
      [] j.delay = 0 -> InAsync(RuleRun(j.rule, j.value, j.data)).result
      [] OTHER ->
            LET first == RuleRun(j.rule, j.value, j.data).result
            IN  IF first.kind = "rejected" THEN first
                ELSE RuleRun(j.rule, j.value, j.data).result

\* invoking the closure: a pending Promise
StartJob(j) == [promise |-> "pending", of |-> j]

\* the Promise once it has settled
SettleJob(p) == [promise |-> "settled", of |-> p.of, outcome |-> JobOutcome(p.of)]

(***************************************************************************)
(* The state of one field (state.ts, unvalidated).                         *)
(***************************************************************************)
unvalidated(rule, field, jobs) ==
    [kind |-> "unvalidated", rule |-> rule, jobs |-> jobs, field |-> field]

\* {...jobs, next: j}
WithNext(jobs, j) == [jobs EXCEPT !.next = j]

\* clear that only queues the trivial job and leaves kind and result as they are
FieldClearKeepsKind(fs) == [jobs |-> WithNext(fs.jobs, ClearJob)] @@ fs

\* clear that queues no job
FieldClearNoJob(fs) == unvalidated(fs.rule, fs.field, fs.jobs)

\* clear that also drops the running Promise
FieldClearDropsCurrent(fs) ==
    unvalidated(fs.rule, fs.field, [current |-> undefined, next |-> ClearJob])

FieldClear(fs) == unvalidated(fs.rule, fs.field, WithNext(fs.jobs, ClearJob))

FieldPassed(fs) == fs.kind = "validated" /\ fs.result.kind = "passed"

\* validate without the synchronous branch: every request is queued as a job
FieldValidateQueuesAll(fs, data, d, clearWhenValidating) ==
    [kind |-> IF clearWhenValidating
              THEN IF fs.kind = "unvalidated" THEN "validating" ELSE fs.kind
              ELSE "validating",
     jobs |-> WithNext(fs.jobs, ValidateJob(fs.rule, data[fs.field], data, d))] @@ fs

\* validate whose closures read the record when they run and find none
FieldValidateLateRecord(fs, data, d, clearWhenValidating) ==
    IF d = 0 /\ RuleKind(fs.rule) = "sync-rule"
    THEN [kind |-> "validated", result |-> Run(fs.rule, data[fs.field], data).result] @@ fs
    ELSE [kind |-> "validating",
          jobs |-> WithNext(fs.jobs, ValidateJob(fs.rule, data[fs.field], undefined, d))] @@ fs

\* validate that resets the field while its job is queued
FieldValidateResets(fs, data, d, clearWhenValidating) ==
    IF d = 0 /\ RuleKind(fs.rule) = "sync-rule"
    THEN [kind |-> "validated", result |-> Run(fs.rule, data[fs.field], data).result] @@ fs
    ELSE [kind |-> IF clearWhenValidating THEN "unvalidated" ELSE "validating",
          jobs |-> WithNext(fs.jobs, ValidateJob(fs.rule, data[fs.field], data, d))] @@ fs

\* validate whose synchronous branch passes through Validating first
FieldValidateTwoPhase(fs, data, d, clearWhenValidating) ==
    IF d = 0 /\ RuleKind(fs.rule) = "sync-rule"
    THEN [kind |-> IF fs.kind = "unvalidated" THEN "validating" ELSE "validated",
          result |-> Run(fs.rule, data[fs.field], data).result] @@ fs
    ELSE [kind |-> "validating",
          jobs |-> WithNext(fs.jobs, ValidateJob(fs.rule, data[fs.field], data, d))] @@ fs

FieldValidate(fs, data, d, clearWhenValidating) ==
    LET field == data[fs.field]
    IN  CASE d = 0 /\ RuleKind(fs.rule) = "sync-rule" ->
                [kind |-> "validated", result |-> Run(fs.rule, field, data).result] @@ fs
          [] d = 0 /\ RuleKind(fs.rule) # "sync-rule" /\ clearWhenValidating ->
                [kind |-> IF fs.kind = "unvalidated" THEN "validating" ELSE fs.kind,
                 jobs |-> WithNext(fs.jobs, ValidateJob(fs.rule, field, data, 0))] @@ fs
          [] d = 0 /\ RuleKind(fs.rule) # "sync-rule" /\ ~clearWhenValidating ->
                [jobs |-> WithNext(fs.jobs, ValidateJob(fs.rule, field, data, 0))] @@ fs
          [] OTHER ->
                [kind |-> IF clearWhenValidating
                          THEN IF fs.kind = "unvalidated" THEN "validating" ELSE fs.kind
                          ELSE "validating",
                 jobs |-> WithNext(fs.jobs, ValidateJob(fs.rule, field, data, d))] @@ fs

(***************************************************************************)
(* The validator state (state.ts, validatorState): the map of the fields   *)
(* and the queries over it.                                                *)
(***************************************************************************)
validatorState == [k \in Fields |-> unvalidated(Schema(k), k, [current |-> undefined, next |-> undefined])]

\* kind with a fourth answer for a form of which some fields are Validated and some not
ValidatorKindPartial(s) ==
    IF \E k \in DOMAIN s : s[k].kind = "validating" THEN "validating"
    ELSE IF \A k \in DOMAIN s : s[k].kind # "validated" THEN "unvalidated"
    ELSE IF \E k \in DOMAIN s : s[k].kind # "validated" THEN "partially validated"
    ELSE "validated"

\* the entries of the fields map that hold a field state
Defined(s) == {k \in DOMAIN s : s[k] # undefined}

ValidatorKind(s) ==
    IF \E k \in Defined(s) : s[k].kind = "validating" THEN "validating"
    ELSE IF \E k \in Defined(s) : s[k].kind # "validated" THEN "unvalidated"
    ELSE "validated"

\* message(k) returns null: no field state, not validated, or passed
MessageIsNull(s, k) ==
    \/ k \notin Defined(s)
    \/ s[k].kind # "validated"
    \/ s[k].result.kind = "passed"

null == [ty |-> "null"]

\* the options of message: no namespace, no override key
NoNs == "none"
NoKey == "none"

\* a key of the translation resources: `${ns}:${name}` in the namespace ns, `${name}`
\* in the default namespace; name is the sequence of the parts joined by "__"
Key(ns, name) == [ns |-> ns, name |-> name]

\* {...data.result.data, field: k, kind: data.result.name, ...(o.data || {})}
RenderData(fs, k, o) == o.data @@ [field |-> k, kind |-> fs.result.name] @@ fs.result.data

\* message(k, o): null, or the call of i18next.t with a key and the render data;
\* resources are the keys for which i18next.exists holds
Message(s, k, o, resources) ==
    IF MessageIsNull(s, k) THEN null
    ELSE IF o.key # NoKey
         THEN [t |-> Key(o.ns, <<o.key>>), data |-> RenderData(s[k], k, o)]
         ELSE IF Key(o.ns, <<s[k].result.name, k>>) \in resources
              THEN [t |-> Key(NoNs, <<s[k].result.name, k>>), data |-> RenderData(s[k], k, o)]
              ELSE [t |-> Key(o.ns, <<s[k].result.name>>), data |-> RenderData(s[k], k, o)]

\* newS.fields[field]!.validate(...) is called on undefined and throws a TypeError
ValidateThrows(s, field) ==
    IF field # NoArg THEN field \notin Defined(s) ELSE Defined(s) # DOMAIN s

\* validate that ignores the field argument
ValidatorValidateAll(s, data, field, d, clearWhenValidating) ==
    [k \in DOMAIN s |-> FieldValidate(s[k], data, d, clearWhenValidating)]

ValidatorValidate(s, data, field, d, clearWhenValidating) ==
    IF field # NoArg
    THEN [s EXCEPT ![field] = FieldValidate(s[field], data, d, clearWhenValidating)]
    ELSE [k \in DOMAIN s |-> FieldValidate(s[k], data, d, clearWhenValidating)]

\* error with the two branches under the wrong test (k != null instead of k == undefined)
ValidatorErrorSwapped(s, k) ==
    IF k # NoArg
    THEN \E f \in DOMAIN s : FieldPassed(s[f]) = FALSE
    ELSE FALSE

\* error that, without a field, counts only the fields that were validated and failed
ValidatorErrorValidatedOnly(s, k) ==
    IF k = NoArg
    THEN \E f \in DOMAIN s : s[f].kind = "validated" /\ s[f].result.kind = "failed"
    ELSE IF k \notin DOMAIN s THEN FALSE
    ELSE IF s[k].kind # "validated" THEN FALSE
    ELSE ~FieldPassed(s[k])

ValidatorError(s, k) ==
    IF k = NoArg
    THEN \E f \in Defined(s) : FieldPassed(s[f]) = FALSE
    ELSE IF k \notin Defined(s) THEN FALSE
    ELSE IF s[k].kind # "validated" THEN FALSE
    ELSE ~FieldPassed(s[k])

\* newS.fields[k] = newS.fields[k]?.clear(): a key without field state is set to undefined
ValidatorClear(s, k) ==
    IF k # NoArg
    THEN [f \in DOMAIN s \cup {k} |->
            IF f # k THEN s[f]
            ELSE IF k \in Defined(s) THEN FieldClear(s[k]) ELSE undefined]
    ELSE [f \in DOMAIN s |-> IF f \in Defined(s) THEN FieldClear(s[f]) ELSE undefined]

(***************************************************************************)
(* The validator widget (widget.tsx): the patches the driver applies to a  *)
(* field.                                                                  *)
(***************************************************************************)
\* jobManager: the condition under which it emits the promotion
JobManagerGuard(s0) == s0.jobs.next # undefined /\ s0.jobs.current = undefined

\* a promotion that leaves the closure queued
PromotePatchKeepsNext(s1) ==
    [jobs |-> [current |-> StartJob(s1.jobs.next), next |-> s1.jobs.next]] @@ s1

\* jobManager: s1 => ({...s1, jobs: {current: s1.jobs.next!(), next: undefined}})
PromotePatch(s1) ==
    [jobs |-> [current |-> StartJob(s1.jobs.next), next |-> undefined]] @@ s1

\* the promise widget without on_fail: the rejection is handed on as it is
SettledResultNoOnFail(p) == p.outcome

\* promise(..., {on_fail: () => failed('generic')}): the value handed to the fold
SettledResult(p) ==
    IF p.outcome.kind = "rejected" THEN failedNoData("generic") ELSE p.outcome

\* a fold that does not look at jobs.next
FoldPatchAlways(s1, r) ==
    [kind |-> "validated", result |-> r,
     jobs |-> [s1.jobs EXCEPT !.current = undefined]] @@ s1

\* a fold that resets the field when it discards the result
FoldPatchUnvalidates(s1, r) ==
    IF s1.jobs.next = undefined
    THEN [kind |-> "validated", result |-> r,
          jobs |-> [s1.jobs EXCEPT !.current = undefined]] @@ s1
    ELSE [kind |-> "unvalidated", jobs |-> [s1.jobs EXCEPT !.current = undefined]] @@ s1

\* a fold that leaves the settled Promise in jobs.current when it discards the result
FoldPatchKeepsCurrent(s1, r) ==
    IF s1.jobs.next = undefined
    THEN [kind |-> "validated", result |-> r,
          jobs |-> [s1.jobs EXCEPT !.current = undefined]] @@ s1
    ELSE s1

\* a fold that empties jobs.current and leaves kind as it is
FoldPatchKeepsKind(s1, r) == [jobs |-> [s1.jobs EXCEPT !.current = undefined]] @@ s1

\* field: the fold of a settled job
FoldPatch(s1, r) ==
    IF s1.jobs.next = undefined
    THEN [kind |-> "validated", result |-> r,
          jobs |-> [s1.jobs EXCEPT !.current = undefined]] @@ s1
    ELSE [jobs |-> [s1.jobs EXCEPT !.current = undefined]] @@ s1

\* validator: s1 => ({...s1, fields: {...s1.fields, [k]: a(s1.fields[k])}}), a the promotion
WidgetPromote(s1, k) == [s1 EXCEPT ![k] = PromotePatch(s1[k])]

\* the same with a the fold of the result r
WidgetFold(s1, k, r) == [s1 EXCEPT ![k] = FoldPatch(s1[k], r)]

(***************************************************************************)
(* The form: a caller that holds the validator state, calls validate and   *)
(* clear on it and renders the validator widget.                           *)
(***************************************************************************)
VARIABLES
    fields,     \* the fields of the ValidatorState the form holds
    hist,       \* per field, the calls made on it so far
    ncalls,     \* the number of validate / clear calls so far
    started,    \* the number of job closures invoked so far
    step,       \* the operation that led to this state
    track,      \* whether hist, started, step and clearedInFlight are recorded
    clearedInFlight, \* per field, whether clear was called on the Promise now in jobs.current
    alg,        \* the rule algebra exercised on its own
    api         \* the objects of the validator state: the calls made on snapshots of it

vars == <<fields, hist, ncalls, started, step, track, clearedInFlight, alg, api>>

\* a field has a job queued or running
Busy(fs) == fs.jobs.next # undefined \/ fs.jobs.current # undefined

ValidateCall(s, data, field, d, cwv, k) ==
    [op |-> "validate", data |-> data, delay |-> d, busy |-> Busy(s[k])]

ClearCall == [op |-> "clear"]

Touched(field) == IF field = NoArg THEN Fields ELSE {field}

\* the form as constructed, nothing called yet
Fresh ==
    /\ fields = validatorState
    /\ hist = [k \in Fields |-> <<>>]
    /\ ncalls = 0
    /\ started = 0
    /\ step = [act |-> "init", field |-> NoArg]
    /\ clearedInFlight = [k \in Fields |-> FALSE]

Init == Fresh /\ track = TRUE /\ alg = [op |-> "none"] /\ api = [op |-> "none"]

\* the record of the operation that led to the next state
Record(s) == step' = IF track THEN s ELSE step

\* s.validator.validate(data, field, delay, clearWhenValidating)
Validate(data, field, d, cwv) ==
    /\ ncalls < MaxCalls
    /\ fields' = ValidatorValidate(fields, data, field, d, cwv)
    /\ hist' = [k \in Fields |->
                    IF track /\ k \in Touched(field)
                    THEN Append(hist[k], ValidateCall(fields, data, field, d, cwv, k))
                    ELSE hist[k]]
    /\ ncalls' = ncalls + 1
    /\ Record([act |-> "validate", field |-> field, delay |-> d, cwv |-> cwv])
    /\ UNCHANGED <<started, track, clearedInFlight, alg, api>>

\* s.validator.clear(field)
Clear(field) ==
    /\ ncalls < MaxCalls
    /\ fields' = ValidatorClear(fields, field)
    /\ hist' = [k \in Fields |->
                    IF track /\ k \in Touched(field)
                    THEN Append(hist[k], ClearCall)
                    ELSE hist[k]]
    /\ ncalls' = ncalls + 1
    /\ Record([act |-> "clear", field |-> field])
    /\ clearedInFlight' = [k \in Fields |->
                    IF track /\ k \in Touched(field)
                    THEN fields[k].jobs.current # undefined
                    ELSE clearedInFlight[k]]
    /\ UNCHANGED <<started, track, alg, api>>

\* a render of the widget in which jobManager promotes the queued job of field k
Promote(k) ==
    /\ JobManagerGuard(fields[k])
    /\ fields' = WidgetPromote(fields, k)
    /\ started' = IF track THEN started + 1 ELSE started
    /\ Record([act |-> "promote", field |-> k])
    /\ UNCHANGED <<hist, ncalls, track, clearedInFlight, alg, api>>

\* the running Promise of field k settles
Settle(k) ==
    /\ fields[k].jobs.current # undefined
    /\ fields[k].jobs.current.promise = "pending"
    /\ fields' = [fields EXCEPT ![k].jobs.current = SettleJob(@)]
    /\ Record([act |-> "settle", field |-> k])
    /\ UNCHANGED <<hist, ncalls, started, track, clearedInFlight, alg, api>>

\* the promise widget hands the settled result of field k to the fold
Fold(k) ==
    /\ fields[k].jobs.current # undefined
    /\ fields[k].jobs.current.promise = "settled"
    /\ fields' = WidgetFold(fields, k, SettledResult(fields[k].jobs.current))
    /\ Record([act |-> "fold", field |-> k])
    /\ clearedInFlight' = [clearedInFlight EXCEPT ![k] = FALSE]
    /\ UNCHANGED <<hist, ncalls, started, track, alg, api>>

Next ==
    \/ \E data \in Records, field \in Fields \cup {NoArg}, d \in Delays, cwv \in BOOLEAN :
            Validate(data, field, d, cwv)
    \/ \E field \in Fields \cup {NoArg} : Clear(field)
    \/ \E k \in Fields : Promote(k)
    \/ \E k \in Fields : Settle(k)
    \/ \E k \in Fields : Fold(k)

Spec == Init /\ [][Next]_vars

(***************************************************************************)
(* The rule algebra on its own: two rules are composed and the composite   *)
(* is run on a value and a record.                                         *)
(***************************************************************************)
\* asynchronous rules: one that passes, one that can reject, and lifted synchronous
\* rules that pass or fail with the value
AsyncRules ==
    {delay, remoteCheck, ToAsync(isAlphaNumeric), ToAsync(hasMinLength(MinNameLength))}

SyncRules ==
    {hasMinLength(MinNameLength), isAlphaNumeric, isRequired, isEmpty,
     And(isRequired, isAlphaNumeric), Or(isEmpty, hasMinLength(MinNameLength)),
     And(isRequired, equalTo("lastname"))}

AlgebraInit ==
    /\ Fresh
    /\ track = TRUE
    /\ api = [op |-> "none"]
    /\ \E rs \in (SyncRules \X SyncRules) \cup (AsyncRules \X AsyncRules),
          a \in AlgebraValues, root \in Records :
            alg = [op |-> "start", r1 |-> rs[1], r2 |-> rs[2], a |-> a, root |-> root,
                   out |-> undefined]

\* r1.and(r2).run(a, root)
ApplyAnd ==
    /\ alg.op = "start"
    /\ RuleKind(alg.r1) = "sync-rule"
    /\ alg' = [alg EXCEPT !.op = "and", !.out = Run(And(alg.r1, alg.r2), alg.a, alg.root)]
    /\ UNCHANGED <<fields, hist, ncalls, started, step, track, clearedInFlight, api>>

\* r1.or(r2).run(a, root)
ApplyOr ==
    /\ alg.op = "start"
    /\ RuleKind(alg.r1) = "sync-rule"
    /\ alg' = [alg EXCEPT !.op = "or", !.out = Run(Or(alg.r1, alg.r2), alg.a, alg.root)]
    /\ UNCHANGED <<fields, hist, ncalls, started, step, track, clearedInFlight, api>>

\* r1.async().run(a, root)
ApplyAsync ==
    /\ alg.op = "start"
    /\ RuleKind(alg.r1) = "sync-rule"
    /\ alg' = [alg EXCEPT !.op = "async", !.out = AsyncRun(ToAsync(alg.r1), alg.a, alg.root)]
    /\ UNCHANGED <<fields, hist, ncalls, started, step, track, clearedInFlight, api>>

\* r1.and(r2).run(a, root) and r1.or(r2).run(a, root) of asynchronous rules
ApplyAsyncAnd ==
    /\ alg.op = "start"
    /\ RuleKind(alg.r1) = "async-rule"
    /\ alg' = [alg EXCEPT !.op = "asyncAnd",
                          !.out = AsyncRun(AsyncAnd(alg.r1, alg.r2), alg.a, alg.root)]
    /\ UNCHANGED <<fields, hist, ncalls, started, step, track, clearedInFlight, api>>

ApplyAsyncOr ==
    /\ alg.op = "start"
    /\ RuleKind(alg.r1) = "async-rule"
    /\ alg' = [alg EXCEPT !.op = "asyncOr",
                          !.out = AsyncRun(AsyncOr(alg.r1, alg.r2), alg.a, alg.root)]
    /\ UNCHANGED <<fields, hist, ncalls, started, step, track, clearedInFlight, api>>

\* the rules a third operand is drawn from, of the kind of r
ThirdRules(r) ==
    IF RuleKind(r) = "sync-rule"
    THEN {isAlphaNumeric, isEmpty, hasMinLength(MinNameLength)}
    ELSE {delay, ToAsync(isAlphaNumeric)}

\* (r1.and(r2)).and(r3) and r1.and(r2.and(r3)) run on the same input
ApplyAssocAnd(r3) ==
    /\ alg.op = "start"
    /\ alg' = [op |-> "assocAnd", r3 |-> r3,
               out |-> [left |-> RuleRun(DotAnd(DotAnd(alg.r1, alg.r2), r3), alg.a, alg.root),
                        right |-> RuleRun(DotAnd(alg.r1, DotAnd(alg.r2, r3)), alg.a, alg.root)]]
              @@ alg
    /\ UNCHANGED <<fields, hist, ncalls, started, step, track, clearedInFlight, api>>

ApplyAssocOr(r3) ==
    /\ alg.op = "start"
    /\ alg' = [op |-> "assocOr", r3 |-> r3,
               out |-> [left |-> RuleRun(DotOr(DotOr(alg.r1, alg.r2), r3), alg.a, alg.root),
                        right |-> RuleRun(DotOr(alg.r1, DotOr(alg.r2, r3)), alg.a, alg.root)]]
              @@ alg
    /\ UNCHANGED <<fields, hist, ncalls, started, step, track, clearedInFlight, api>>

\* n rules: r1, r2 and then r3
Operands(n, r3) == [i \in 1..n |-> IF i = 1 THEN alg.r1 ELSE IF i = 2 THEN alg.r2 ELSE r3]

\* b.all(r1, ..., rn).run(a, root)
ApplyAll(n, r3) ==
    /\ alg.op = "start"
    /\ RuleKind(alg.r1) = "sync-rule"
    /\ alg' = [op |-> "all", rs |-> Operands(n, r3),
               out |-> Run(all(Operands(n, r3)), alg.a, alg.root)] @@ alg
    /\ UNCHANGED <<fields, hist, ncalls, started, step, track, clearedInFlight, api>>

\* b.any(r1, ..., rn).run(a, root)
ApplyAny(n, r3) ==
    /\ alg.op = "start"
    /\ RuleKind(alg.r1) = "sync-rule"
    /\ alg' = [op |-> "any", rs |-> Operands(n, r3),
               out |-> Run(any(Operands(n, r3)), alg.a, alg.root)] @@ alg
    /\ UNCHANGED <<fields, hist, ncalls, started, step, track, clearedInFlight, api>>

\* r1.run(undefined, root): the field is missing from the record
ApplyAbsent ==
    /\ alg.op = "start"
    /\ RuleKind(alg.r1) = "sync-rule"
    /\ alg' = [alg EXCEPT !.op = "absent", !.out = Run(alg.r1, undefined, alg.root)]
    /\ UNCHANGED <<fields, hist, ncalls, started, step, track, clearedInFlight, api>>

AlgebraNext ==
    \/ ApplyAnd
    \/ ApplyOr
    \/ ApplyAsync
    \/ ApplyAsyncAnd
    \/ ApplyAsyncOr
    \/ \E r3 \in ThirdRules(alg.r1) : ApplyAssocAnd(r3)
    \/ \E r3 \in ThirdRules(alg.r1) : ApplyAssocOr(r3)
    \/ \E n \in 1..MaxRules, r3 \in ThirdRules(alg.r1) : ApplyAll(n, r3)
    \/ \E n \in 1..MaxRules, r3 \in ThirdRules(alg.r1) : ApplyAny(n, r3)
    \/ ApplyAbsent

AlgebraSpec == AlgebraInit /\ [][AlgebraNext]_vars

(***************************************************************************)
(* The form under the scheduling the render loop promises: the widget is   *)
(* rendered again and again, and every started Promise settles.  The       *)
(* history of the calls is not recorded here.                              *)
(***************************************************************************)
FairInit == Fresh /\ track = FALSE /\ alg = [op |-> "none"] /\ api = [op |-> "none"]

FairSpec ==
    /\ FairInit
    /\ [][Next]_vars
    /\ \A k \in Fields : WF_vars(Promote(k)) /\ WF_vars(Settle(k)) /\ WF_vars(Fold(k))

(***************************************************************************)
(* The form with a rule for firstname whose Promise can reject.            *)
(***************************************************************************)
FaultSchema(f) == IF f = "firstname" THEN AsyncAnd(delay, remoteCheck) ELSE Schema(f)

FaultInit ==
    /\ fields = [k \in Fields |->
                    unvalidated(FaultSchema(k), k, [current |-> undefined, next |-> undefined])]
    /\ hist = [k \in Fields |-> <<>>]
    /\ ncalls = 0
    /\ started = 0
    /\ step = [act |-> "init", field |-> NoArg]
    /\ clearedInFlight = [k \in Fields |-> FALSE]
    /\ track = TRUE
    /\ alg = [op |-> "none"]
    /\ api = [op |-> "none"]

FaultSpec == FaultInit /\ [][Next]_vars

(***************************************************************************)
(* The form with synchronous rules only.                                   *)
(***************************************************************************)
SyncSchema(f) == IF f = "firstname" THEN Or(isEmpty, isAlphaNumeric) ELSE Schema(f)

SyncInit ==
    /\ fields = [k \in Fields |->
                    unvalidated(SyncSchema(k), k, [current |-> undefined, next |-> undefined])]
    /\ hist = [k \in Fields |-> <<>>]
    /\ ncalls = 0
    /\ started = 0
    /\ step = [act |-> "init", field |-> NoArg]
    /\ clearedInFlight = [k \in Fields |-> FALSE]
    /\ track = TRUE
    /\ alg = [op |-> "none"]
    /\ api = [op |-> "none"]

SyncSpec == SyncInit /\ [][Next]_vars

(***************************************************************************)
(* The validator state as objects.  A ValidatorState holds a reference to  *)
(* its fields map, the one object that validate and clear write to         *)
(* (newS.fields[k] = ...); the field states are values that are replaced.  *)
(* The caller keeps every snapshot it was ever returned and calls validate *)
(* and clear on any of them, also for a key that has no rule.              *)
(***************************************************************************)
\* a key of the form data for which the schema has no rule
NoRuleField == "phone"

\* the call with newS = {...this}, a copy that shares the fields map of the receiver
ObjValidateInPlace(mem, this, data, field, d, cwv) ==
    LET newS == [fields |-> this.fields]
    IN  IF ValidateThrows(mem[newS.fields], field)
        THEN [mem |-> mem, threw |-> TRUE, ret |-> undefined]
        ELSE [mem |-> [mem EXCEPT ![newS.fields] = ValidatorValidate(@, data, field, d, cwv)],
              threw |-> FALSE, ret |-> newS]

\* this.validate(data, field, delay, clearWhenValidating) on the objects in mem:
\* newS = {...this, fields: {...this.fields}}, then the writes to newS.fields
ObjValidate(mem, this, data, field, d, cwv) ==
    LET copy == Append(mem, mem[this.fields])
        newS == [fields |-> Len(copy)]
    IN  IF ValidateThrows(copy[newS.fields], field)
        THEN [mem |-> copy, threw |-> TRUE, ret |-> undefined]
        ELSE [mem |-> [copy EXCEPT ![newS.fields] = ValidatorValidate(@, data, field, d, cwv)],
              threw |-> FALSE, ret |-> newS]

\* this.clear(k) on the objects in mem
ObjClear(mem, this, k) ==
    LET copy == Append(mem, mem[this.fields])
        newS == [fields |-> Len(copy)]
    IN  [mem |-> [copy EXCEPT ![newS.fields] = ValidatorClear(@, k)],
         threw |-> FALSE, ret |-> newS]

\* the fields observable through the snapshot s
Observe(mem, s) == mem[s.fields]

\* the state of the caller after a call on its i-th snapshot that gave r
AfterCall(op, i, field, r) ==
    [op |-> op, this |-> i, field |-> field, n |-> api.n + 1,
     mem |-> r.mem, threw |-> r.threw,
     snaps |-> IF r.threw THEN api.snaps
               ELSE Append(api.snaps, [fields |-> r.ret.fields, seen |-> Observe(r.mem, r.ret)])]

ApiInit ==
    /\ Fresh
    /\ track = TRUE
    /\ alg = [op |-> "none"]
    /\ api = [op |-> "new", this |-> 1, field |-> NoArg, n |-> 0,
              mem |-> <<validatorState>>, threw |-> FALSE,
              snaps |-> <<[fields |-> 1, seen |-> validatorState]>>]

ApiValidate(i, data, field, d, cwv) ==
    /\ api.n < MaxCalls
    /\ api' = AfterCall("validate", i, field,
                        ObjValidate(api.mem, api.snaps[i], data, field, d, cwv))
    /\ UNCHANGED <<fields, hist, ncalls, started, step, track, clearedInFlight, alg>>

ApiClear(i, field) ==
    /\ api.n < MaxCalls
    /\ api' = AfterCall("clear", i, field, ObjClear(api.mem, api.snaps[i], field))
    /\ UNCHANGED <<fields, hist, ncalls, started, step, track, clearedInFlight, alg>>

ApiNext ==
    \/ \E i \in 1..Len(api.snaps), data \in Records,
          field \in Fields \cup {NoArg, NoRuleField}, d \in Delays, cwv \in BOOLEAN :
            ApiValidate(i, data, field, d, cwv)
    \/ \E i \in 1..Len(api.snaps), field \in Fields \cup {NoArg, NoRuleField} :
            ApiClear(i, field)

ApiSpec == ApiInit /\ [][ApiNext]_vars

(***************************************************************************)
(* The form with the patches of the driver in the queue of setState.  A    *)
(* render of the validator widget on the state s0 emits patches s1 => ..,  *)
(* which are applied later, in the order they were emitted, to the state   *)
(* of that moment; validate and clear calls can land in between.           *)
(***************************************************************************)
\* the patch the widget of field k emits: the promotion, or the fold of the result r
PromotionOf(k) == [patch |-> "promote", field |-> k, s0 |-> fields[k]]
FoldOf(k, r) == [patch |-> "fold", field |-> k, r |-> r, s0 |-> fields[k]]

\* a(s1.fields[k]) for the patch p
PatchField(p, s1k) == IF p.patch = "promote" THEN PromotePatch(s1k) ELSE FoldPatch(s1k, p.r)

\* a patch that writes the field as the widget saw it when it emitted the patch
ApplyPatchToSnapshot(s1, p) == [s1 EXCEPT ![p.field] = PatchField(p, p.s0)]

\* s1 => ({...s1, fields: {...s1.fields, [k]: a(s1.fields[k])}})
ApplyPatch(s1, p) == [s1 EXCEPT ![p.field] = PatchField(p, s1[p.field])]

\* s1.jobs.next!() with jobs.next empty: the call of undefined throws a TypeError
PatchThrows(s1, p) == p.patch = "promote" /\ s1[p.field].jobs.next = undefined

StaleInit ==
    /\ Fresh
    /\ track = TRUE
    /\ alg = [op |-> "none"]
    /\ api = [op |-> "driver", queue |-> <<>>, threw |-> FALSE]

\* a render in which jobManager emits the promotion for field k
EmitPromote(k) ==
    /\ Len(api.queue) < MaxQueue
    /\ JobManagerGuard(fields[k])
    /\ api' = [api EXCEPT !.queue = Append(@, PromotionOf(k))]
    /\ Record([act |-> "emit", field |-> k])
    /\ UNCHANGED <<fields, hist, ncalls, started, track, clearedInFlight, alg>>

\* the Promise the promise widget of field k waits for has settled: it emits the fold
EmitFold(k) ==
    /\ Len(api.queue) < MaxQueue
    /\ fields[k].jobs.current # undefined
    /\ fields[k].jobs.current.promise = "settled"
    /\ api' = [api EXCEPT !.queue = Append(@, FoldOf(k, SettledResult(fields[k].jobs.current)))]
    /\ Record([act |-> "emit", field |-> k])
    /\ UNCHANGED <<fields, hist, ncalls, started, track, clearedInFlight, alg>>

\* setState applies the oldest patch to the state of now
ApplyHead ==
    /\ api.queue # <<>>
    /\ LET p == Head(api.queue)
       IN  /\ fields' = IF PatchThrows(fields, p) THEN fields ELSE ApplyPatch(fields, p)
           /\ api' = [api EXCEPT !.queue = Tail(@), !.threw = PatchThrows(fields, p)]
           /\ started' = IF p.patch = "promote" /\ ~PatchThrows(fields, p)
                         THEN started + 1 ELSE started
           /\ Record([act |-> "apply", patch |-> p.patch, field |-> p.field,
                      stale |-> fields[p.field] # p.s0])
    /\ UNCHANGED <<hist, ncalls, track, clearedInFlight, alg>>

\* the calls of the form: validate and clear of one field, as its onChange handlers make
StaleNext ==
    \/ \E data \in Records, field \in Fields, d \in Delays : Validate(data, field, d, FALSE)
    \/ \E field \in Fields : Clear(field)
    \/ \E k \in Fields : EmitPromote(k)
    \/ \E k \in Fields : Settle(k)
    \/ \E k \in Fields : EmitFold(k)
    \/ ApplyHead

StaleSpec == StaleInit /\ [][StaleNext]_vars

(***************************************************************************)
(* The form of a field and its repetition: lastname is to equal firstname. *)
(***************************************************************************)
EqualSchema(f) == IF f = "firstname" THEN isRequired ELSE equalTo("firstname")

\* two records with the same lastname, of which one repeats it in firstname
EqualRecords ==
    {[firstname |-> Str(<<"a">>), lastname |-> Str(<<"a">>)],
     [firstname |-> Str(<<"a", "1">>), lastname |-> Str(<<"a">>)]}

EqualInit ==
    /\ fields = [k \in Fields |->
                    unvalidated(EqualSchema(k), k, [current |-> undefined, next |-> undefined])]
    /\ hist = [k \in Fields |-> <<>>]
    /\ ncalls = 0
    /\ started = 0
    /\ step = [act |-> "init", field |-> NoArg]
    /\ clearedInFlight = [k \in Fields |-> FALSE]
    /\ track = TRUE
    /\ alg = [op |-> "none"]
    /\ api = [op |-> "none"]

EqualNext ==
    \/ \E data \in EqualRecords, field \in Fields \cup {NoArg}, d \in Delays, cwv \in BOOLEAN :
            Validate(data, field, d, cwv)
    \/ \E field \in Fields \cup {NoArg} : Clear(field)
    \/ \E k \in Fields : Promote(k)
    \/ \E k \in Fields : Settle(k)
    \/ \E k \in Fields : Fold(k)

EqualSpec == EqualInit /\ [][EqualNext]_vars

(***************************************************************************)
(* The comparisons of numbers on their own: a rule bigger(n), biggerOr(n), *)
(* lesser(n) or lesserOr(n) is built and run on a number v.                *)
(***************************************************************************)
Numbers == (0 - MaxNum)..MaxNum

NumberRules == UNION {{bigger(n), biggerOr(n), lesser(n), lesserOr(n)} : n \in Numbers}

NumberInit ==
    /\ Fresh
    /\ track = TRUE
    /\ api = [op |-> "none"]
    /\ \E r \in NumberRules, v \in Numbers :
            alg = [op |-> "number", r1 |-> r, a |-> Num(v), out |-> undefined]

\* r.run(v)
ApplyNumber ==
    /\ alg.op = "number"
    /\ alg' = [alg EXCEPT !.op = "compared", !.out = Run(alg.r1, alg.a, undefined)]
    /\ UNCHANGED <<fields, hist, ncalls, started, step, track, clearedInFlight, api>>

NumberNext == ApplyNumber

NumberSpec == NumberInit /\ [][NumberNext]_vars

(***************************************************************************)
(* message on its own: it is called on a state of the validator with       *)
(* options, while some translation resources are loaded.                   *)
(***************************************************************************)
\* the options message is called with
MessageOptions ==
    {[ns |-> ns, key |-> key, data |-> data] :
        ns \in {NoNs, "forms"}, key \in {NoKey, "custom"},
        data \in {<<>>, [field |-> "Last name"]}}

\* the translation resources that are loaded: the key of the rule and the field exists
\* in no namespace, in the default one, in "forms"
Resources(s, k) ==
    IF MessageIsNull(s, k) THEN {{}}
    ELSE {{}, {Key(NoNs, <<s[k].result.name, k>>)}, {Key("forms", <<s[k].result.name, k>>)}}

\* states of the validator: as constructed, after one validate, after a validate and a
\* clear
MessageStates ==
    LET validated == {ValidatorValidate(validatorState, data, field, d, FALSE) :
                        data \in Records, field \in Fields \cup {NoArg}, d \in Delays}
    IN  {validatorState} \cup validated
            \cup {ValidatorClear(s, field) : s \in validated, field \in {"firstname", NoRuleField}}

MessageInit ==
    /\ Fresh
    /\ track = TRUE
    /\ alg = [op |-> "none"]
    /\ \E s \in MessageStates : api = [op |-> "state", s |-> s]

\* s.message(k, o) with the resources loaded
ApplyMessage(k, o) ==
    /\ api.op = "state"
    /\ \E resources \in Resources(api.s, k) :
            api' = [op |-> "message", s |-> api.s, field |-> k, o |-> o,
                    resources |-> resources, msg |-> Message(api.s, k, o, resources)]
    /\ UNCHANGED <<fields, hist, ncalls, started, step, track, clearedInFlight, alg>>

MessageNext == \E k \in Fields \cup {NoRuleField}, o \in MessageOptions : ApplyMessage(k, o)

MessageSpec == MessageInit /\ [][MessageNext]_vars

(***************************************************************************)
(* Properties.                                                             *)
(***************************************************************************)
Last(h) == h[Len(h)]

HasResult(fs) == "result" \in DOMAIN fs

\* the result a job leaves that ran rule k on the record data
RuleResult(k, data) ==
    LET o == RuleRun(Schema(k), data[k], data).result
    IN  IF o.kind = "rejected" THEN failedNoData("generic") ELSE o

\* C1: r1.and(r2).run(v) is r1's Failed result, with r2 not invoked, when r1 fails;
\* it is r2's result, with r2 invoked once after r1, when r1 passes.
AndShortCircuits ==
    alg.op = "and" =>
        LET x1 == Run(alg.r1, alg.a, alg.root)
            x2 == Run(alg.r2, alg.a, alg.root)
        IN  IF x1.result.kind = "failed"
            THEN alg.out.result = x1.result /\ alg.out.calls = x1.calls
            ELSE alg.out.result = x2.result /\ alg.out.calls = x1.calls \o x2.calls

\* hasMinLength(2).and(isAlphaNumeric) on "!": the length check fails and is the result,
\* the second rule (which would fail too) is not run
AndShortCircuitsWitness ==
    /\ alg.op = "and"
    /\ alg.r1 = hasMinLength(MinNameLength)
    /\ alg.r2 = isAlphaNumeric
    /\ alg.a = Str(<<"!">>)
    /\ alg.out.result.name = "min"
    /\ alg.out.calls = <<hasMinLength(MinNameLength)>>

\* C2: r1.or(r2).run(v) is r1's Passed result, with r2 not invoked, when r1 passes;
\* it is r2's result when r1 fails.
OrShortCircuits ==
    alg.op = "or" =>
        LET x1 == Run(alg.r1, alg.a, alg.root)
            x2 == Run(alg.r2, alg.a, alg.root)
        IN  IF x1.result.kind = "passed"
            THEN alg.out.result = passed /\ alg.out.calls = x1.calls
            ELSE alg.out.result = x2.result /\ alg.out.calls = x1.calls \o x2.calls

\* isEmpty.or(isAlphaNumeric) on "a!": isEmpty fails, the result is isAlphaNumeric's
OrShortCircuitsWitness ==
    /\ alg.op = "or"
    /\ alg.r1 = isEmpty
    /\ alg.r2 = isAlphaNumeric
    /\ alg.a = Str(<<"a", "!">>)
    /\ alg.out.result = failed("alphaNumeric", [given |-> Str(<<"a", "!">>)])
    /\ alg.out.calls = <<isEmpty, isAlphaNumeric>>

\* the field holds no result, or holds the same one, before and after a step
SameResult(s0, s1) ==
    /\ HasResult(s0) = HasResult(s1)
    /\ HasResult(s0) => s1.result = s0.result

\* exactly two calls were made on field k: validate(v1, d) and validate(v2, d) with
\* d > 0, the second while the job of the first was still queued or running
DebounceCase(k) ==
    /\ Len(hist[k]) = 2
    /\ hist[k][1].op = "validate" /\ hist[k][2].op = "validate"
    /\ hist[k][1].delay > 0 /\ hist[k][2].delay > 0
    /\ hist[k][2].busy

\* the terminal state of the debounce: validated with the rule applied to v2, no job left
DebounceTerminal(k) ==
    /\ DebounceCase(k)
    /\ fields[k].kind = "validated"
    /\ fields[k].result = RuleResult(k, hist[k][2].data)
    /\ ~Busy(fields[k])

\* C3: after validate(v1, field, d) and validate(v2, field, d), d > 0, the second issued
\* before the job of the first resolved, the field never holds a result computed from
\* v1, and it is Validated exactly when no job is left, with the rule applied to v2.
Debounce ==
    \A k \in Fields :
        DebounceCase(k) =>
            /\ HasResult(fields[k]) => fields[k].result = RuleResult(k, hist[k][2].data)
            /\ fields[k].kind = "validated" <=> ~Busy(fields[k])

\* lastname was validated with "a1" and then, debounced, with "a!": the terminal state
\* holds the failure of "a!" although the job of "a1" had been started
DebounceWitness ==
    /\ DebounceTerminal("lastname")
    /\ hist["lastname"][1].data # hist["lastname"][2].data
    /\ RuleResult("lastname", hist["lastname"][1].data) = passed
    /\ fields["lastname"].result.kind = "failed"
    /\ started >= 2

\* only validate calls were made on field k, at least one
OnlyValidated(k) ==
    /\ hist[k] # <<>>
    /\ \A i \in 1..Len(hist[k]) : hist[k][i].op = "validate"

\* C4: after any sequence of validate calls on a field, once jobs.next and jobs.current
\* are both empty the field's result is the rule applied to the value of the last call.
MostRecentWins ==
    \A k \in Fields :
        (OnlyValidated(k) /\ ~Busy(fields[k])) =>
            /\ fields[k].kind = "validated"
            /\ fields[k].result = RuleResult(k, Last(hist[k]).data)

\* C5: the fold of a settled jobs.current: with jobs.next empty the field becomes
\* Validated with the settled result; with jobs.next non-empty kind and result stay;
\* in both cases jobs.current is cleared and jobs.next is left as it was.
FoldStep ==
    [][\A k \in Fields :
        (step'.act = "fold" /\ step'.field = k) =>
            LET s0 == fields[k]
                s1 == fields'[k]
                o == s0.jobs.current.outcome
            IN  /\ s0.jobs.current.promise = "settled"
                /\ s1.jobs.current = undefined
                /\ s1.jobs.next = s0.jobs.next
                /\ s1.rule = s0.rule
                /\ IF s0.jobs.next = undefined
                   THEN /\ s1.kind = "validated"
                        /\ s1.result = IF o.kind = "rejected" THEN failedNoData("generic") ELSE o
                   ELSE s1.kind = s0.kind /\ SameResult(s0, s1)]_vars

\* a fold that discarded its result: a request is still queued, the field is not Validated
FoldStepWitness ==
    /\ step.act = "fold"
    /\ fields[step.field].jobs.next # undefined
    /\ fields[step.field].jobs.current = undefined
    /\ fields[step.field].kind = "validating"
    /\ ~HasResult(fields[step.field])

\* C6: a promotion happens only with jobs.next non-empty and jobs.current empty; it
\* invokes the queued closure once, stores the started Promise in jobs.current and
\* clears jobs.next; kind, result and rule are unchanged.
PromoteStep ==
    [][\A k \in Fields :
        (step'.act = "promote" /\ step'.field = k) =>
            LET s0 == fields[k]
                s1 == fields'[k]
            IN  /\ s0.jobs.next # undefined
                /\ s0.jobs.current = undefined
                /\ s1.jobs.current = [promise |-> "pending", of |-> s0.jobs.next]
                /\ s1.jobs.next = undefined
                /\ started' = started + 1
                /\ s1.kind = s0.kind
                /\ s1.rule = s0.rule
                /\ SameResult(s0, s1)]_vars

\* a promotion on a field that is Validated: the job runs, the result stays visible
PromoteStepWitness ==
    /\ step.act = "promote"
    /\ fields[step.field].kind = "validated"
    /\ fields[step.field].jobs.current # undefined
    /\ fields[step.field].jobs.next = undefined

\* C7: validate(value, 0) on a field with a synchronous rule gives, from any state of
\* the field, Validated with rule.run(value, record), and leaves jobs as it was.
SyncValidateStep ==
    [][\A k \in Fields :
        ( /\ step'.act = "validate"
          /\ step'.field \in {k, NoArg}
          /\ step'.delay = 0
          /\ RuleKind(Schema(k)) = "sync-rule" ) =>
            LET data == Last(hist'[k]).data
            IN  /\ fields'[k].kind = "validated"
                /\ fields'[k].result = Run(Schema(k), data[k], data).result
                /\ fields'[k].jobs = fields[k].jobs]_vars

\* validate(data, 'lastname') while a job of lastname is running
SyncValidateStepWitness ==
    /\ step.act = "validate"
    /\ step.field = "lastname"
    /\ step.delay = 0
    /\ fields["lastname"].kind = "validated"
    /\ fields["lastname"].jobs.current # undefined

\* C8: right after validate(record) with the default arguments a field with an
\* asynchronous rule is Validating with its job in jobs.next, and kind() is
\* "validating".
AsyncValidating ==
    \A k \in Fields :
        ( /\ step.act = "validate"
          /\ step.field = NoArg
          /\ step.delay = 0
          /\ ~step.cwv
          /\ RuleKind(Schema(k)) = "async-rule" ) =>
            /\ fields[k].kind = "validating"
            /\ fields[k].jobs.next # undefined
            /\ ValidatorKind(fields) = "validating"

\* a field is Validated and has no job queued or running
Quiet(k) == fields[k].kind = "validated" /\ ~Busy(fields[k])

\* C9: with the widget rendered again and again and every started Promise settling,
\* once the caller makes no further call every field with a job queued or running
\* becomes Validated with both slots empty.
JobsDrain == \A k \in Fields : Busy(fields[k]) ~> Quiet(k)

\* both fields drained; the asynchronous rule of firstname failed, which only the fold
\* of its job can have recorded
JobsDrainWitness ==
    /\ \A k \in Fields : Quiet(k)
    /\ fields["firstname"].result.kind = "failed"

ClearNeutralises ==
    /\ [](\A k \in Fields : clearedInFlight[k] =>
                fields[k].jobs.current # undefined /\ fields[k].jobs.next # undefined)
    /\ [][\A k \in Fields :
            (step'.act = "fold" /\ step'.field = k /\ clearedInFlight[k]) =>
                /\ fields[k].jobs.current.promise = "settled"
                /\ fields'[k].kind = fields[k].kind
                /\ SameResult(fields[k], fields'[k])
                /\ fields'[k].jobs.current = undefined]_vars

\* the only job that was started ran on lastname, clear was called while it ran, and
\* its fold left the field Unvalidated with the trivial job still queued
ClearNeutralisesWitness ==
    /\ step.act = "fold"
    /\ step.field = "lastname"
    /\ started = 1
    /\ Len(hist["lastname"]) = 2
    /\ hist["lastname"][1].op = "validate"
    /\ hist["lastname"][2].op = "clear"
    /\ fields["lastname"].kind = "unvalidated"
    /\ ~HasResult(fields["lastname"])
    /\ fields["lastname"].jobs = [current |-> undefined, next |-> ClearJob]

\* C13: error() without a field is false exactly when every field is Validated with a
\* Passed result; a field that is Unvalidated or Validating makes it true.
ErrorAnyField ==
    ValidatorError(fields, NoArg)
        = ~(\A k \in Fields : fields[k].kind = "validated" /\ fields[k].result = passed)

\* no field has failed: lastname passed, firstname is still validating, error() is true
ErrorAnyFieldWitness ==
    /\ ValidatorError(fields, NoArg)
    /\ fields["lastname"].kind = "validated"
    /\ fields["lastname"].result = passed
    /\ fields["firstname"].kind = "validating"
    /\ fields["firstname"].jobs.current # undefined

\* C14: kind() is "validating" if a field is Validating, else "unvalidated" if a field
\* is not Validated, else "validated"; it is never "partially validated".
KindOfFields ==
    LET kind == ValidatorKind(fields)
        anyValidating == \E k \in Fields : fields[k].kind = "validating"
        allValidated == \A k \in Fields : fields[k].kind = "validated"
    IN  /\ anyValidating => kind = "validating"
        /\ (~anyValidating /\ ~allValidated) => kind = "unvalidated"
        /\ allValidated => kind = "validated"
        /\ kind # "partially validated"

\* lastname is Validated, firstname was never validated: kind() is "unvalidated"
KindOfFieldsWitness ==
    /\ fields["lastname"].kind = "validated"
    /\ fields["firstname"].kind = "unvalidated"
    /\ hist["firstname"] = <<>>
    /\ ValidatorKind(fields) = "unvalidated"

\* C15: validate(record, field, ...) and clear(field) with a field given leave every
\* other field (kind, result, rule, jobs.next, jobs.current) as it is in the receiver.
OtherFieldsUntouched ==
    [][(step'.act \in {"validate", "clear"} /\ step'.field # NoArg) =>
            \A k \in Fields \ {step'.field} : fields'[k] = fields[k]]_vars

\* lastname was validated while a job of firstname is running
OtherFieldsUntouchedWitness ==
    /\ step.act = "validate"
    /\ step.field = "lastname"
    /\ Len(hist["lastname"]) = 1
    /\ Len(hist["firstname"]) = 1
    /\ fields["firstname"].kind = "validating"
    /\ fields["firstname"].jobs.current # undefined
    /\ fields["firstname"].jobs.next = undefined

\* C17: right after validate(record) with no field and the default arguments, a field
\* that exposes a result (it is Validated) exposes the result of its rule on this record.
ValidateAllClears ==
    (step.act = "validate" /\ step.field = NoArg /\ step.delay = 0 /\ ~step.cwv) =>
        \A k \in Fields :
            fields[k].kind = "validated" =>
                fields[k].result = RuleResult(k, Last(hist[k]).data)

\* C16: validate and clear do not change the receiver: every snapshot the caller was
\* ever returned still shows the field states (kind, result, jobs) it showed when it
\* was returned, whatever was called on it or on other snapshots since.
ReceiverUnchanged ==
    api.op # "none" =>
        \A i \in 1..Len(api.snaps) : Observe(api.mem, api.snaps[i]) = api.snaps[i].seen

\* two calls were made on the first snapshot; it still is the state as constructed and
\* the two returned snapshots differ from it and from each other
ReceiverUnchangedWitness ==
    /\ api.op \in {"validate", "clear"}
    /\ api.this = 1
    /\ Len(api.snaps) = 3
    /\ Observe(api.mem, api.snaps[1]) = validatorState
    /\ Observe(api.mem, api.snaps[2]) # validatorState
    /\ Observe(api.mem, api.snaps[3]) # validatorState
    /\ Observe(api.mem, api.snaps[2]) # Observe(api.mem, api.snaps[3])

\* C18: validate(record, f), clear(f), error(f) and message(f) for a field f without a
\* rule do not throw, and validate and clear return an aggregate with the key set and
\* the field states of the receiver.
MisuseIsNoOp ==
    (api.op \in {"validate", "clear"} /\ api.field = NoRuleField) =>
        /\ ~api.threw
        /\ Observe(api.mem, Last(api.snaps)) = Observe(api.mem, api.snaps[api.this])
        /\ ~ValidatorError(Observe(api.mem, api.snaps[api.this]), NoRuleField)
        /\ MessageIsNull(Observe(api.mem, api.snaps[api.this]), NoRuleField)

\* C19: the fold of a Promise in jobs.current that rejected: with jobs.next empty the
\* field becomes Validated with Failed('generic'), with jobs.next non-empty kind and
\* result stay; jobs.current is emptied, jobs.next and every other field stay.
RejectionFolded ==
    [][\A k \in Fields :
        ( /\ step'.act = "fold"
          /\ step'.field = k
          /\ fields[k].jobs.current.outcome = Rejected ) =>
            /\ fields'[k].jobs.current = undefined
            /\ fields'[k].jobs.next = fields[k].jobs.next
            /\ IF fields[k].jobs.next = undefined
               THEN /\ fields'[k].kind = "validated"
                    /\ fields'[k].result = [kind |-> "failed", name |-> "generic",
                                            data |-> [name |-> "generic"]]
               ELSE /\ fields'[k].kind = fields[k].kind
                    /\ SameResult(fields[k], fields'[k])
            /\ \A f \in Fields \ {k} : fields'[f] = fields[f]]_vars

\* the job of firstname rejected and was folded while lastname holds its own result
RejectionFoldedWitness ==
    /\ step.act = "fold"
    /\ step.field = "firstname"
    /\ fields["firstname"].kind = "validated"
    /\ fields["firstname"].result.kind = "failed"
    /\ fields["firstname"].result.name = "generic"
    /\ fields["firstname"].jobs = [current |-> undefined, next |-> undefined]
    /\ fields["lastname"].kind = "validated"
    /\ fields["lastname"].result = passed

\* C20: r.async().run(v, root) settles to the Result that r.run(v, root) returns.
AsyncSameAsSync ==
    alg.op = "async" => alg.out.result = Run(alg.r1, alg.a, alg.root).result


\* ---- asynchronous and / or ----

\* the Result that decides r1.and(r2), respectively r1.or(r2), without r2
Decides(op) == IF op \in {"asyncAnd", "assocAnd", "all"} THEN "failed" ELSE "passed"

\* C21: for asynchronous rules r1.and(r2) and r1.or(r2) go left to right: every Promise of
\* r1 is started and settled before any Promise of r2 is started; when r1's Result decides
\* (Failed for and, Passed for or), or r1's Promise rejects, no Promise of r2 is started
\* and the composite settles as r1 did; otherwise it settles to the Result of r2.
AsyncLeftToRight ==
    alg.op \in {"asyncAnd", "asyncOr"} =>
        LET x1 == InAsync(AsyncRun(alg.r1, alg.a, alg.root))
            x2 == InAsync(AsyncRun(alg.r2, alg.a, alg.root))
        IN  IF x1.result.kind \in {"rejected", Decides(alg.op)}
            THEN /\ alg.out.result = x1.result
                 /\ alg.out.events = x1.events
                 /\ alg.out.calls = x1.calls
            ELSE /\ alg.out.result = x2.result
                 /\ alg.out.events = x1.events \o x2.events
                 /\ alg.out.calls = x1.calls \o x2.calls
                 /\ x1.events[Len(x1.events)].ev = "settle"
                 /\ x2.events[1].ev = "start"

\* an asynchronous and whose left operand failed, and an asynchronous or whose left
\* operand failed so that the right one was awaited
AsyncLeftToRightWitness ==
    \/ /\ alg.op = "asyncAnd"
       /\ alg.r1 = ToAsync(hasMinLength(MinNameLength))
       /\ alg.r2 = remoteCheck
       /\ alg.out.result.kind = "failed"
       /\ alg.out.events = <<Started(alg.r1), Settled(alg.r1)>>
    \/ /\ alg.op = "asyncOr"
       /\ alg.r1 = ToAsync(hasMinLength(MinNameLength))
       /\ alg.r2 = delay
       /\ alg.out.result = passed
       /\ Len(alg.out.events) = 4

\* ---- associativity ----

\* s is a prefix of t
IsPrefix(s, t) == Len(s) <= Len(t) /\ SubSeq(t, 1, Len(s)) = s

\* C22: (r1.and(r2)).and(r3) and r1.and(r2.and(r3)) return the same Result and invoke the
\* same operands in the same order, the left operand r1 first; likewise for or.
Associative ==
    alg.op \in {"assocAnd", "assocOr"} =>
        /\ alg.out.left = alg.out.right
        /\ IsPrefix(InAsync(RuleRun(alg.r1, alg.a, alg.root)).calls, alg.out.left.calls)

\* three operands all of which were invoked, of synchronous and of asynchronous rules
AssociativeWitness ==
    /\ alg.op \in {"assocAnd", "assocOr"}
    /\ alg.r1 # alg.r2
    /\ alg.r2 # alg.r3
    /\ Len(alg.out.left.calls) >= 3
    /\ alg.out.left.result.kind = "failed"

\* ---- all / any ----

\* the Results of the operands of all / any, each run alone on the same input
OperandResult(i) == Run(alg.rs[i], alg.a, alg.root)

\* the operands whose Result decides: the failing ones for all, the passing ones for any
Deciding == {i \in 1..Len(alg.rs) : OperandResult(i).result.kind = Decides(alg.op)}

\* the first deciding operand, the last operand when none decides
Decider ==
    IF Deciding = {} THEN Len(alg.rs)
    ELSE CHOOSE i \in Deciding : \A j \in Deciding : i <= j

\* the primitives invoked by the operands 1..n, in order
RECURSIVE CallsUpTo(_)
CallsUpTo(n) == IF n = 0 THEN <<>> ELSE CallsUpTo(n - 1) \o OperandResult(n).calls

\* C29: all(r1, ..., rn) returns the Result of the first rule that fails and passed when
\* none fails; any(r1, ..., rn) returns the Result of the first rule that passes and a
\* failed Result (that of rn) when none passes; rules after the deciding one are not run.
AllAnyFirstDecides ==
    alg.op \in {"all", "any"} =>
        /\ alg.out.result = OperandResult(Decider).result
        /\ alg.out.calls = CallsUpTo(Decider)
        /\ alg.op = "all" /\ Deciding = {} => alg.out.result = passed
        /\ alg.op = "any" /\ Deciding = {} => alg.out.result.kind = "failed"

\* all of three rules decided by the second one, any of three rules none of which passes
AllAnyFirstDecidesWitness ==
    \/ /\ alg.op = "all"
       /\ Len(alg.rs) = 3
       /\ Decider = 2
       /\ Deciding # {}
       /\ alg.out.result.kind = "failed"
    \/ /\ alg.op = "any"
       /\ Len(alg.rs) = 3
       /\ Deciding = {}

\* ---- primitives on an absent value ----

\* C30: every primitive of the catalog, run on an absent value, returns passed or failed
\* and does not throw.
PrimitivesTotal ==
    alg.op = "absent" => alg.out.result.kind \in {"passed", "failed"}

\* ---- idempotence ----

\* s.validate(r): no field, no delay, clearWhenValidating not set
ValidateRecord(s, r) == ValidatorValidate(s, r, NoArg, 0, FALSE)

\* C23: on a form whose rules are all synchronous, s.validate(r).validate(r) equals
\* s.validate(r) in kind, result and job slots of every field, for every record r and
\* every reachable s.
Idempotent ==
    \A r \in Records : ValidateRecord(ValidateRecord(fields, r), r) = ValidateRecord(fields, r)

\* validate(r) called a second time with the same record while a delayed job of an
\* earlier call is still running
IdempotentWitness ==
    /\ step.act = "validate"
    /\ step.field = NoArg
    /\ step.delay = 0
    /\ \E r \in Records : fields = ValidateRecord(fields, r)
    /\ \A k \in Fields : RuleKind(fields[k].rule) = "sync-rule" /\ fields[k].kind = "validated"
    /\ \E k \in Fields : fields[k].jobs.current # undefined

\* ---- the writers of the job slots ----

\* the field with jobs.current hidden, and a field with the jobs.current of fs put back
Hidden(fs) == [fs EXCEPT !.jobs.current = undefined]
Restore(fs, x) == [x EXCEPT !.jobs.current = fs.jobs.current]

\* C26: validate and clear neither read nor change jobs.current: what they return is what
\* they return with jobs.current hidden, and jobs.current stays.  jobs.current changes
\* only in steps of the driver on that field: the promotion fills the empty slot with
\* the started job, the fold empties it, and in between the Promise in it settles.
SingleWriter ==
    [][\A k \in Fields :
        LET old == fields[k].jobs.current
            new == fields'[k].jobs.current
        IN  /\ step'.act \in {"validate", "clear"} => new = old
            /\ step'.act = "validate" /\ k \in Touched(step'.field) =>
                    fields'[k] = Restore(fields[k],
                                         FieldValidate(Hidden(fields[k]), Last(hist'[k]).data,
                                                       step'.delay, step'.cwv))
            /\ step'.act = "clear" /\ k \in Touched(step'.field) =>
                    fields'[k] = Restore(fields[k], FieldClear(Hidden(fields[k])))
            /\ new # old =>
                    /\ step'.field = k
                    /\ \/ /\ step'.act = "promote"
                          /\ old = undefined
                          /\ new = StartJob(fields[k].jobs.next)
                       \/ /\ step'.act = "fold"
                          /\ new = undefined
                       \/ /\ step'.act = "settle"
                          /\ old.promise = "pending"
                          /\ new.of = old.of]_vars

\* validate or clear was called on firstname while a settled Promise waits in
\* jobs.current, and the Promise is still there
SingleWriterWitness ==
    /\ step.act \in {"validate", "clear"}
    /\ step.field = "firstname"
    /\ fields["firstname"].jobs.current # undefined
    /\ fields["firstname"].jobs.current.promise = "settled"
    /\ fields["firstname"].jobs.next # undefined

\* ---- the transitions of kind ----

\* C27: a field becomes Validated only in a validate step without delay on a
\* synchronous rule or in the fold of its settled job; it becomes Unvalidated only in a
\* clear step.
KindTransitions ==
    [][\A k \in Fields :
        LET old == fields[k].kind
            new == fields'[k].kind
        IN  /\ new = "validated" /\ old # "validated" =>
                    \/ /\ step'.act = "validate"
                       /\ k \in Touched(step'.field)
                       /\ step'.delay = 0
                       /\ RuleKind(fields[k].rule) = "sync-rule"
                    \/ /\ step'.act = "fold"
                       /\ step'.field = k
            /\ new = "unvalidated" /\ old # "unvalidated" =>
                    /\ step'.act = "clear"
                    /\ k \in Touched(step'.field)]_vars

\* a Validated field on which validate with a delay and clearWhenValidating was called:
\* it is neither reset nor validated anew
KindTransitionsWitness ==
    /\ step.act = "validate"
    /\ step.delay > 0
    /\ step.cwv
    /\ step.field = "lastname"
    /\ Len(hist["lastname"]) = 2
    /\ fields["lastname"].kind = "validated"
    /\ fields["lastname"].jobs.next # undefined

\* ---- clearWhenValidating ----

\* C28: when validate queues a job (asynchronous rule or delay > 0) for a Validated
\* field, clearWhenValidating = true takes the field out of Validated and
\* clearWhenValidating = false leaves it Validated with its result.
ClearWhenValidating ==
    [][\A k \in Fields :
        /\ step'.act = "validate"
        /\ k \in Touched(step'.field)
        /\ step'.delay > 0 \/ RuleKind(fields[k].rule) # "sync-rule"
        /\ fields[k].kind = "validated"
        => IF step'.cwv
           THEN fields'[k].kind # "validated"
           ELSE fields'[k].kind = "validated" /\ fields'[k].result = fields[k].result]_vars

\* ---- message ----

\* what message is to hand to the lookup: the key whose existence was tested
MessageQualified(s, k, o, resources) ==
    IF MessageIsNull(s, k) THEN null
    ELSE IF o.key # NoKey
         THEN [t |-> Key(o.ns, <<o.key>>), data |-> RenderData(s[k], k, o)]
         ELSE IF Key(o.ns, <<s[k].result.name, k>>) \in resources
              THEN [t |-> Key(o.ns, <<s[k].result.name, k>>), data |-> RenderData(s[k], k, o)]
              ELSE [t |-> Key(o.ns, <<s[k].result.name>>), data |-> RenderData(s[k], k, o)]

\* C24: message(field) is null unless the field is Validated with a Failed result;
\* otherwise the key it looks up is the override key if one is given, else
\* "{ruleName}__{field}" if that key exists, else "{ruleName}", each in the namespace
\* given, and the key looked up is the key whose existence was tested.
MessageKey ==
    api.op = "message" =>
        api.msg = MessageQualified(api.s, api.field, api.o, api.resources)

\* ---- the keys of the field map ----

\* C25: in every state returned by the constructor, validate or clear the keys of the
\* field map are the fields of the schema, and every key maps to a field state.
KeySetIsSchema ==
    \A i \in 1..Len(api.snaps) :
        LET s == Observe(api.mem, api.snaps[i])
        IN  DOMAIN s = Fields /\ Defined(s) = DOMAIN s

\* ---- comparisons of numbers ----

\* what the NumberRuleBuilder documents for the rule r and the number v
Documented(r, v) ==
    CASE r.t = "bigger" -> v > r.n
      [] r.t = "biggerOr" -> v >= r.n
      [] r.t = "lesser" -> v < r.n
      [] r.t = "lesserOr" -> v <= r.n

\* C31: bigger(n) passes iff v > n, biggerOr(n) iff v >= n, lesser(n) iff v < n and
\* lesserOr(n) iff v <= n.
NumericComparisons ==
    alg.op = "compared" => (alg.out.result = passed <=> Documented(alg.r1, alg.a.v))

\* ---- equalTo ----

\* the record repeats lastname in firstname
Repeats(data) == data["lastname"] = data["firstname"]

\* C32: after validate(record, field) on lastname, whose rule is equalTo("firstname"):
\* without delay the result is passed iff record.lastname = record.firstname for the
\* record of this call; with a delay the queued job holds the value and the record of
\* this call, and a started job settles to passed iff its own record repeats the value.
EqualToReadsRecord ==
    LET fs == fields["lastname"]
        call == Last(hist["lastname"])
    IN  /\ (step.act = "validate" /\ "lastname" \in Touched(step.field) /\ step.delay = 0) =>
                /\ fs.kind = "validated"
                /\ fs.result = passed <=> Repeats(call.data)
        /\ (step.act = "validate" /\ "lastname" \in Touched(step.field) /\ step.delay > 0) =>
                /\ fs.jobs.next # undefined
                /\ fs.jobs.next.data = call.data
                /\ fs.jobs.next.value = call.data["lastname"]
        /\ (fs.jobs.current # undefined /\ fs.jobs.current.promise = "settled"
                /\ fs.jobs.current.of.job = "validate") =>
                (fs.jobs.current.outcome = passed <=> Repeats(fs.jobs.current.of.data))

\* lastname was validated with a record that repeats it and then, with the same
\* lastname, with a record that does not; and a delayed job of such a call has settled
EqualToReadsRecordWitness ==
    \/ /\ step.act = "validate"
       /\ step.delay = 0
       /\ Len(hist["lastname"]) = 2
       /\ hist["lastname"][1].op = "validate"
       /\ Repeats(hist["lastname"][1].data)
       /\ ~Repeats(hist["lastname"][2].data)
       /\ fields["lastname"].result.kind = "failed"
    \/ /\ step.act = "settle"
       /\ step.field = "lastname"
       /\ Len(hist["lastname"]) = 2
       /\ fields["lastname"].jobs.current.of.delay > 0
       /\ ~Repeats(hist["lastname"][1].data)
       /\ Repeats(fields["lastname"].jobs.current.of.data)
       /\ fields["lastname"].jobs.current.outcome = passed

\* ---- the runs of a delayed job ----

\* C39: a job started from a validate with a delay invokes the rule of the field once.
DelayedJobRunsOnce ==
    \A k \in Fields :
        (fields[k].jobs.current # undefined /\ fields[k].jobs.current.of.job = "validate"
            /\ fields[k].jobs.current.of.delay > 0) =>
            JobRuns(fields[k].jobs.current.of) = 1

\* ---- a cleared field ----

\* C33: a field on which clear was the last call stays Unvalidated, whatever steps the
\* driver takes; it is never Validated and passed() is never true for it.
ClearedStaysCleared ==
    \A k \in Fields :
        (hist[k] # <<>> /\ Last(hist[k]).op = "clear") =>
            /\ fields[k].kind = "unvalidated"
            /\ ~FieldPassed(fields[k])

\* ---- the result of a synchronous validate ----

\* C34: once validate without delay has made a field with a synchronous rule Validated,
\* no step of the driver changes its kind or result, whatever job was queued or running
\* at the time of the call.
SyncResultStable ==
    [][\A k \in Fields :
        (/\ step'.act \in {"promote", "settle", "fold"}
         /\ RuleKind(fields[k].rule) = "sync-rule"
         /\ hist[k] # <<>>
         /\ Last(hist[k]).op = "validate"
         /\ Last(hist[k]).delay = 0)
        => /\ fields'[k].kind = "validated"
           /\ fields'[k].result = fields[k].result]_vars

\* ---- kind() and the jobs ----

\* C35: when kind() is "validated" no field has a job queued or running.
ValidatedIsQuiescent ==
    ValidatorKind(fields) = "validated" => \A k \in Fields : ~Busy(fields[k])

\* C38: a field of kind Validating has a job queued in jobs.next or running in
\* jobs.current.
ValidatingHasJob ==
    \A k \in Fields : fields[k].kind = "validating" => Busy(fields[k])

\* a Validating field whose only job is the running one, after an earlier job of the
\* field was folded away
ValidatingHasJobWitness ==
    \E k \in Fields :
        /\ fields[k].kind = "validating"
        /\ fields[k].jobs.next = undefined
        /\ fields[k].jobs.current # undefined
        /\ started = 2
        /\ Len(hist[k]) = 2

\* ---- the two forms of error ----

\* C40: error() without a field is true iff error(f) is true for some field f.
ErrorFormsAgree ==
    ValidatorError(fields, NoArg) <=> \E f \in Fields : ValidatorError(fields, f)

\* ---- patches applied to a newer state ----

\* C36: a promotion, also one that was emitted for an older state, is applied only to a
\* field with jobs.current empty and jobs.next non-empty: it overwrites no running job
\* and invokes no empty jobs.next.
OneJobInFlight ==
    [][(step'.act = "apply" /\ step'.patch = "promote") =>
            /\ fields[step'.field].jobs.current = undefined
            /\ fields[step'.field].jobs.next # undefined
            /\ ~api'.threw]_vars

====
